---- MODULE Spec2Model ----
(***************************************************************************)
(* Model of scripts/gen_settings_v2.py: flatten_values_tree assigns byte   *)
(* offsets to the records of a value tree, gen_cpp_data_for_struct_values  *)
(* packs them into one byte table.  The classes of gen_settings_types_v2   *)
(* (Val, StructVal, the struct definitions with c_size and pack_format)    *)
(* are not part of the source at hand and are modelled from the            *)
(* specification text.                                                     *)
(***************************************************************************)
EXTENDS Integers, Sequences, FiniteSets

VARIABLES
    heap,    \* the input: every StructVal with its struct_def and val
    offs,    \* StructVal.offset of every record, None until assigned
    pc,      \* position in main: start, flatten, flat_done, emit, emit_done,
             \* or flat_fail / emit_fail after an exception
    err,     \* which assertion or pack raised
    left,    \* flatten_values_tree: left
    vals,    \* flatten_values_tree: vals
    offset,  \* flatten_values_tree: offset
    ret,     \* the list flatten_values_tree returned, <<>> before
    enq,     \* how often each record was added to left
    idx,     \* gen_cpp_data_for_struct_values: position of the for loop
    eoff,    \* gen_cpp_data_for_struct_values: offset
    lines,   \* gen_cpp_data_for_struct_values: the bytes of lines
    starts,  \* the offset written in the comment line of each record
    result,  \* the table gen_cpp_data_for_struct_values returned, <<>> before
    ver1, ver2,  \* two versions, four components each
    enc1, enc2   \* their encodings

pvars == <<heap, offs, pc, err, left, vals, offset, ret, enq,
           idx, eoff, lines, starts, result>>
vvars == <<ver1, ver2, enc1, enc2>>
vars == <<heap, offs, pc, err, left, vals, offset, ret, enq,
          idx, eoff, lines, starts, result, ver1, ver2, enc1, enc2>>

----------------------------------------------------------------------------
(* Bounds *)

\* number of record instances (StructVal objects) an input may hold
MaxRecs == 3
\* small version components tried besides 255
VerSmall == 1

\* cap of the flatten loop: an acyclic input lists fewer than 2*MaxRecs
\* records, so only a cyclic input meets the cap
MaxVals == 2 * MaxRecs

----------------------------------------------------------------------------
(* Types, struct definitions, values *)

\* the value of an offset that was never assigned
None == -1

MaxComponent == 255

Recs == 1..MaxRecs
Root == 1

\* byte width of a field type; a struct reference is an 8 byte pointer
Width(typ) ==
    CASE typ = "U8" -> 1
      [] typ = "U16" -> 2
      [] typ = "U32" -> 4
      [] typ = "U64" -> 8
      [] typ = "Ref" -> 8

Var(n, t) == [name |-> n, typ |-> t]

StructDefs ==
    [S  |-> <<Var("version", "U32"), Var("count", "U32"), Var("child", "Ref")>>,
     S2 |-> <<Var("version", "U32"), Var("count", "U32"), Var("child", "Ref"),
              Var("other", "Ref")>>,
     C  |-> <<Var("version", "U32"), Var("flag", "U8")>>,
     C2 |-> <<Var("version", "U32"), Var("flag", "U8"), Var("extra", "U16")>>,
     W  |-> <<Var("version", "U16"), Var("child", "Ref")>>,
     L  |-> <<Var("next", "Ref"), Var("version", "U32")>>]

DefNames == DOMAIN StructDefs

RECURSIVE SumWidths(_)
SumWidths(fields) ==
    IF fields = <<>> THEN 0
    ELSE Width(Head(fields).typ) + SumWidths(Tail(fields))

\* struct_def.c_size: the sum of the field widths, no padding
CSize(d) == SumWidths(StructDefs[d])

\* bound field values: a number, a nested StructVal, a struct field whose
\* val is None, or a struct field with a val that is not a StructVal
Num(n) == [k |-> "num", v |-> n]
Ref(r) == [k |-> "ref", v |-> r]
Null == [k |-> "null", v |-> 0]
Bad == [k |-> "bad", v |-> 0]

IsStruct(field) == field.k \in {"ref", "null", "bad"}
ValIsNone(field) == field.k = "null"
IsStructVal(field) == field.k = "ref"

RefVals == {Null, Bad} \cup {Ref(r) : r \in Recs}

\* version 2.3 as the docstring encodes it: (2 << 24) | (3 << 16)
Ver23 == Num(2 * 16777216 + 3 * 65536)

RootVals ==
         {[def |-> "S", val |-> <<Ver23, Num(c), x>>] : c \in {5, -1}, x \in RefVals}
    \cup {[def |-> "S2", val |-> <<Ver23, Num(5), x, y>>] : x \in RefVals, y \in RefVals}
    \cup {[def |-> "C", val |-> <<Ver23, Num(f)>>] : f \in {1, 256}}
    \cup {[def |-> "C2", val |-> <<Ver23, Num(1), Num(513)>>]}
    \cup {[def |-> "W", val |-> <<Num(515), x>>] : x \in RefVals}
    \cup {[def |-> "L", val |-> <<x, Ver23>>] : x \in RefVals}

NestedVals ==
         {[def |-> "S", val |-> <<Ver23, Num(5), x>>] : x \in RefVals}
    \cup {[def |-> "C", val |-> <<Ver23, Num(f)>>] : f \in {1, 256}}

Heaps ==
    {[r \in Recs |-> IF r = Root THEN a ELSE f[r]] :
        a \in RootVals, f \in [Recs \ {Root} -> NestedVals]}

----------------------------------------------------------------------------
(* flatten_values_tree *)

\* "version" == val.struct_def.vars[0].name
FirstFieldIsVersion(r) == StructDefs[heap[r].def][1].name = "version"

Enqueue_Front(q, r) == <<r>> \o q

\* left += [field]
Enqueue(q, r) == Append(q, r)

\* the loop over val.val: every struct field whose val is not None must be
\* a StructVal and is put on the queue; ok is FALSE when the assertion
\* fails, left is the queue at that moment
RECURSIVE ScanFields(_, _)
ScanFields(fields, q) ==
    IF fields = <<>> THEN [ok |-> TRUE, left |-> q]
    ELSE LET field == Head(fields) IN
         IF IsStruct(field) /\ ~ValIsNone(field)
         THEN IF ~IsStructVal(field)
              THEN [ok |-> FALSE, left |-> q]
              ELSE ScanFields(Tail(fields), Enqueue(q, field.v))
         ELSE ScanFields(Tail(fields), q)

NextOffset_FieldCount(off, r) == off + Len(heap[r].val)

\* offset += val.struct_def.c_size
NextOffset(off, r) == off + CSize(heap[r].def)

CountIn(q, r) == Cardinality({i \in 1..Len(q) : q[i] = r})

\* how often each record has been put on the queue after the queue went
\* from Tail(left) to q
Enqueued(q) == [r \in Recs |-> enq[r] + CountIn(q, r) - CountIn(Tail(left), r)]

\* the assertion on the first field fails: nothing else has run
FlattenRejectRoot ==
    /\ pc = "start"
    /\ ~FirstFieldIsVersion(Root)
    /\ pc' = "flat_fail"
    /\ err' = "FirstField"
    /\ UNCHANGED <<heap, offs, left, vals, offset, ret, enq,
                   idx, eoff, lines, starts, result, vvars>>

\* vals = [], left = [val], offset = 0
FlattenStart ==
    /\ pc = "start"
    /\ FirstFieldIsVersion(Root)
    /\ vals' = <<>>
    /\ left' = <<Root>>
    /\ offset' = 0
    /\ enq' = [enq EXCEPT ![Root] = 1]
    /\ pc' = "flatten"
    /\ UNCHANGED <<heap, offs, err, ret, idx, eoff, lines, starts, result, vvars>>

\* one pass of the while loop
FlattenStep ==
    /\ pc = "flatten"
    /\ Len(left) > 0
    /\ Len(vals) < MaxVals
    /\ LET val == Head(left)
           scan == ScanFields(heap[val].val, Tail(left))
       IN /\ scan.ok
          /\ offs' = [offs EXCEPT ![val] = offset]
          /\ left' = scan.left
          /\ enq' = Enqueued(scan.left)
          /\ offset' = NextOffset(offset, val)
          /\ vals' = Append(vals, val)
    /\ UNCHANGED <<heap, pc, err, ret, idx, eoff, lines, starts, result, vvars>>

FlattenStepRaise_ReturnsSoFar ==
    /\ pc = "flatten"
    /\ Len(left) > 0
    /\ Len(vals) < MaxVals
    /\ LET val == Head(left)
           scan == ScanFields(heap[val].val, Tail(left))
       IN /\ ~scan.ok
          /\ offs' = [offs EXCEPT ![val] = offset]
          /\ left' = scan.left
          /\ enq' = Enqueued(scan.left)
    /\ ret' = Append(vals, Head(left))
    /\ pc' = "flat_fail"
    /\ err' = "NotStructVal"
    /\ UNCHANGED <<heap, vals, offset, idx, eoff, lines, starts, result, vvars>>

\* one pass of the while loop in which assert isinstance(field, StructVal)
\* fails: val.offset is already set, nothing is returned
FlattenStepRaise ==
    /\ pc = "flatten"
    /\ Len(left) > 0
    /\ Len(vals) < MaxVals
    /\ LET val == Head(left)
           scan == ScanFields(heap[val].val, Tail(left))
       IN /\ ~scan.ok
          /\ offs' = [offs EXCEPT ![val] = offset]
          /\ left' = scan.left
          /\ enq' = Enqueued(scan.left)
    /\ pc' = "flat_fail"
    /\ err' = "NotStructVal"
    /\ UNCHANGED <<heap, vals, offset, ret, idx, eoff, lines, starts, result, vvars>>

\* return vals
FlattenReturn ==
    /\ pc = "flatten"
    /\ Len(left) = 0
    /\ ret' = vals
    /\ pc' = "flat_done"
    /\ UNCHANGED <<heap, offs, err, left, vals, offset, enq,
                   idx, eoff, lines, starts, result, vvars>>

----------------------------------------------------------------------------
(* get_cpp_data_for_struct_val, gen_cpp_data_for_struct_values *)

\* struct.pack of an unsigned integer of w bytes, least significant first
RECURSIVE PackLE(_, _)
PackLE(w, v) == IF w = 0 THEN <<>> ELSE <<v % 256>> \o PackLE(w - 1, v \div 256)

RECURSIVE ShiftBytes(_, _)
ShiftBytes(w, v) == IF w = 0 THEN v ELSE ShiftBytes(w - 1, v \div 256)

\* struct.pack raises for a value outside the format's range
PackFits(w, v) == v >= 0 /\ ShiftBytes(w, v) = 0

\* field.offset: a StructVal's offset, unset on every other struct field
FieldOffset(field) == IF IsStructVal(field) THEN offs[field.v] ELSE None

PackedValue_OwnOffset(field, off) == IF IsStruct(field) THEN off ELSE field.v

\* val = field.offset for a struct field, val = field.val otherwise
PackedValue(field, off) == IF IsStruct(field) THEN FieldOffset(field) ELSE field.v

\* the loop over struct_val.val from field k on: the first field that
\* cannot be packed ends it
RECURSIVE PackFields(_, _, _, _, _)
PackFields(fields, types, k, off, data) ==
    IF k > Len(fields) THEN [ok |-> TRUE, cause |-> "", data |-> data]
    ELSE LET field == fields[k]
             val == PackedValue(field, off)
             w == Width(types[k].typ)
         IN IF IsStruct(field) /\ val = None
            THEN [ok |-> FALSE, cause |-> "NoneOffset", data |-> data]
            ELSE IF ~PackFits(w, val)
            THEN [ok |-> FALSE, cause |-> "Pack", data |-> data]
            ELSE PackFields(fields, types, k + 1, off, data \o PackLE(w, val))

RECURSIVE Reverse(_)
Reverse(s) == IF s = <<>> THEN <<>> ELSE Append(Reverse(Tail(s)), Head(s))

GetCppData_Prepend(r, off) ==
    LET p == PackFields(Reverse(heap[r].val), Reverse(StructDefs[heap[r].def]), 1, off, <<>>)
    IN [ok |-> p.ok, cause |-> p.cause, data |-> p.data, size |-> Len(p.data), hdr |-> off]

\* (lines, size) of one record; hdr is the offset its comment line shows
GetCppData(r, off) ==
    LET p == PackFields(heap[r].val, StructDefs[heap[r].def], 1, off, <<>>)
    IN [ok |-> p.ok, cause |-> p.cause, data |-> p.data, size |-> Len(p.data), hdr |-> off]

\* main hands the flattened list to gen_cpp_data_for_struct_values:
\* lines = [...], offset = 0
EmitStart ==
    /\ pc = "flat_done"
    /\ idx' = 1
    /\ eoff' = 0
    /\ lines' = <<>>
    /\ starts' = <<>>
    /\ pc' = "emit"
    /\ UNCHANGED <<heap, offs, err, left, vals, offset, ret, enq, result, vvars>>

\* one pass of the for loop
EmitStep ==
    /\ pc = "emit"
    /\ idx <= Len(ret)
    /\ LET d == GetCppData(ret[idx], eoff)
       IN /\ d.ok
          /\ lines' = lines \o d.data
          /\ starts' = Append(starts, d.hdr)
          /\ eoff' = eoff + d.size
    /\ idx' = idx + 1
    /\ UNCHANGED <<heap, offs, pc, err, left, vals, offset, ret, enq, result, vvars>>

\* one pass of the for loop in which the assertion on a None offset or
\* struct.pack raises: the exception leaves the function
EmitStepRaise ==
    /\ pc = "emit"
    /\ idx <= Len(ret)
    /\ LET d == GetCppData(ret[idx], eoff)
       IN /\ ~d.ok
          /\ err' = d.cause
    /\ pc' = "emit_fail"
    /\ UNCHANGED <<heap, offs, left, vals, offset, ret, enq,
                   idx, eoff, lines, starts, result, vvars>>

\* return "\n".join(lines)
EmitReturn ==
    /\ pc = "emit"
    /\ idx > Len(ret)
    /\ result' = lines
    /\ pc' = "emit_done"
    /\ UNCHANGED <<heap, offs, err, left, vals, offset, ret, enq,
                   idx, eoff, lines, starts, vvars>>

----------------------------------------------------------------------------
(* The packed version of the module docstring.  A u32 is kept as two 16 bit
   halves, hi * 65536 + lo, so that (255 << 24) is representable. *)

Pow2(n) == CASE n = 0 -> 1 [] n = 8 -> 256 [] n = 16 -> 65536 [] n = 24 -> 16777216

\* x << n, n a multiple of 8
Shl(x, n) ==
    IF n >= 16 THEN [hi |-> x * Pow2(n - 16), lo |-> 0]
    ELSE [hi |-> (x * Pow2(n)) \div 65536, lo |-> (x * Pow2(n)) % 65536]

RECURSIVE BitOr(_, _)
BitOr(a, b) ==
    IF a = 0 THEN b
    ELSE IF b = 0 THEN a
    ELSE (IF a % 2 = 1 \/ b % 2 = 1 THEN 1 ELSE 0) + 2 * BitOr(a \div 2, b \div 2)

\* a | b
Or32(a, b) == [hi |-> BitOr(a.hi, b.hi), lo |-> BitOr(a.lo, b.lo)]

Encode_MinorShift8(v) ==
    Or32(Or32(Or32(Shl(v[1], 24), Shl(v[2], 8)), Shl(v[3], 8)), Shl(v[4], 0))

\* (major << 24) | (minor << 16) | (patch << 8) | build
Encode(v) ==
    Or32(Or32(Or32(Shl(v[1], 24), Shl(v[2], 16)), Shl(v[3], 8)), Shl(v[4], 0))

\* a < b on encoded versions, the ">" of the C code
LtU32(a, b) == a.hi < b.hi \/ (a.hi = b.hi /\ a.lo < b.lo)

FitsU32(a) == a.hi \in 0..65535 /\ a.lo \in 0..65535

CompVals == (0..VerSmall) \cup {MaxComponent}
Versions == CompVals \X CompVals \X CompVals \X CompVals

Unset == [hi |-> None, lo |-> None]

EncodeVersions ==
    /\ enc1 = Unset
    /\ enc1' = Encode(ver1)
    /\ enc2' = Encode(ver2)
    /\ UNCHANGED <<ver1, ver2, pvars>>

----------------------------------------------------------------------------
(* Specifications *)

PipelineInit ==
    /\ offs = [r \in Recs |-> None]
    /\ pc = "start"
    /\ err = ""
    /\ left = <<>>
    /\ vals = <<>>
    /\ offset = 0
    /\ ret = <<>>
    /\ enq = [r \in Recs |-> 0]
    /\ idx = 0
    /\ eoff = 0
    /\ lines = <<>>
    /\ starts = <<>>
    /\ result = <<>>

Init ==
    /\ heap \in Heaps
    /\ PipelineInit
    /\ ver1 = <<0, 0, 0, 0>>
    /\ ver2 = <<0, 0, 0, 0>>
    /\ enc1 = Unset
    /\ enc2 = Unset

Next ==
    \/ FlattenRejectRoot
    \/ FlattenStart
    \/ FlattenStep
    \/ FlattenStepRaise
    \/ FlattenReturn
    \/ EmitStart
    \/ EmitStep
    \/ EmitStepRaise
    \/ EmitReturn

Spec == Init /\ [][Next]_vars

VInit ==
    /\ heap = [r \in Recs |-> [def |-> "C", val |-> <<Ver23, Num(1)>>]]
    /\ PipelineInit
    /\ ver1 \in Versions
    /\ ver2 \in Versions
    /\ enc1 = Unset
    /\ enc2 = Unset

VNext == EncodeVersions

VSpec == VInit /\ [][VNext]_vars

----------------------------------------------------------------------------
(* Shapes of the input, used to state the properties *)

RefFields(r) == {k \in 1..Len(heap[r].val) : heap[r].val[k].k = "ref"}
Targets(r) == {heap[r].val[k].v : k \in RefFields(r)}
TargetsOf(rs) == UNION {Targets(r) : r \in rs}

RECURSIVE Reach(_)
Reach(rs) == LET n == rs \cup TargetsOf(rs) IN IF n = rs THEN rs ELSE Reach(n)

\* the records reachable from the root through non-null struct fields
Reachable == Reach({Root})

RefSlots == {s \in Recs \X (1..4) : s[1] \in Reachable /\ s[2] \in RefFields(s[1])}
SlotTarget(s) == heap[s[1]].val[s[2]].v

\* every reachable record is bound to exactly one parent field, the root to none
IsTree ==
    /\ \A s \in RefSlots : SlotTarget(s) # Root
    /\ \A s, t \in RefSlots : SlotTarget(s) = SlotTarget(t) => s = t

\* some reachable record is reachable from itself
Cyclic == \E r \in Reachable : r \in Reach(Targets(r))

HasNullField(r) == \E k \in 1..Len(heap[r].val) : heap[r].val[k] = Null

RECURSIVE SumCSize(_)
SumCSize(rs) ==
    IF rs = {} THEN 0
    ELSE LET r == CHOOSE x \in rs : TRUE
         IN CSize(heap[r].def) + SumCSize(rs \ {r})

\* byte position of field k inside a record of definition d
FieldPos(d, k) == SumWidths(SubSeq(StructDefs[d], 1, k - 1))

RECURSIVE Unpack(_)
Unpack(bytes) == IF bytes = <<>> THEN 0 ELSE Head(bytes) + 256 * Unpack(Tail(bytes))

Range(q) == {q[i] : i \in 1..Len(q)}

\* the non-null nested records of r, in field order
RECURSIVE ChildrenSeq(_)
ChildrenSeq(fields) ==
    IF fields = <<>> THEN <<>>
    ELSE IF Head(fields).k = "ref"
         THEN <<Head(fields).v>> \o ChildrenSeq(Tail(fields))
         ELSE ChildrenSeq(Tail(fields))

RECURSIVE ChildrenOfLevel(_)
ChildrenOfLevel(level) ==
    IF level = <<>> THEN <<>>
    ELSE ChildrenSeq(heap[Head(level)].val) \o ChildrenOfLevel(Tail(level))

\* the records generation by generation: a level, then the children of its
\* records in listed order
RECURSIVE LevelsFrom(_, _)
LevelsFrom(level, fuel) ==
    IF level = <<>> \/ fuel = 0 THEN <<>>
    ELSE level \o LevelsFrom(ChildrenOfLevel(level), fuel - 1)

LevelOrder == LevelsFrom(<<Root>>, MaxVals)

\* v precedes w in component order, major first
LexLess(v, w) ==
    \E i \in 1..4 : v[i] < w[i] /\ \A j \in 1..(i - 1) : v[j] = w[j]

----------------------------------------------------------------------------
(* Properties *)

\* C1: after a tree was flattened and emitted, every non-null struct
\* reference field is packed as the offset flatten gave its target record,
\* the target record's bytes begin at that byte index of the output, and on
\* a tree the running offset of emission equals the offset of every record.
C1_RefsPackTargetOffsets ==
    pc = "emit_done" =>
        /\ \A i \in 1..Len(ret) : \A k \in RefFields(ret[i]) :
              LET r == ret[i]
                  t == heap[r].val[k].v
                  pos == starts[i] + FieldPos(heap[r].def, k)
              IN /\ Unpack(SubSeq(result, pos + 1, pos + 8)) = offs[t]
                 /\ \E j \in 1..Len(ret) : ret[j] = t /\ starts[j] = offs[t]
                 /\ SubSeq(result, offs[t] + 1, offs[t] + CSize(heap[t].def))
                        = GetCppData(t, offs[t]).data
        /\ IsTree => \A i \in 1..Len(ret) : starts[i] = offs[ret[i]]

C1_Witness ==
    /\ pc = "emit_done"
    /\ IsTree
    /\ Len(ret) >= 3
    /\ \E i \in 1..Len(ret) : RefFields(ret[i]) # {} /\ ret[i] # Root

\* C2: in the list flatten returns for a tree, the root has offset 0 and
\* each next record's offset is the previous record's offset plus the
\* c_size of the previous record's struct definition.
C2_OffsetsAccumulateCSize ==
    (ret # <<>> /\ IsTree) =>
        /\ offs[ret[1]] = 0
        /\ \A i \in 1..(Len(ret) - 1) :
              offs[ret[i + 1]] = offs[ret[i]] + CSize(heap[ret[i]].def)

C2_Witness ==
    /\ pc = "flat_done"
    /\ IsTree
    /\ Len(ret) >= 3
    /\ \E i \in 1..Len(ret) : HasNullField(ret[i])
    /\ \E i, j \in 1..Len(ret) : heap[ret[i]].def # heap[ret[j]].def

\* C3: a null struct reference field is emitted as 0 and emission
\* completes: emission never stops on an unset offset.
C3_NullPacksAsZero ==
    /\ err # "NoneOffset"
    /\ (pc = "emit_done" =>
          \A i \in 1..Len(ret) : \A k \in 1..Len(heap[ret[i]].val) :
             heap[ret[i]].val[k] = Null =>
                LET pos == starts[i] + FieldPos(heap[ret[i]].def, k)
                IN Unpack(SubSeq(result, pos + 1, pos + 8)) = 0)

\* C4: on an input in which a record is reachable from itself, no record
\* is ever put on the work queue twice (the traversal stops with an error).
C4_CycleNeverEnqueuedTwice ==
    Cyclic => (\A r \in Recs : enq[r] <= 1) /\ Len(vals) <= Cardinality(Reachable)

\* C5: the number of bytes emitted equals the sum of c_size over the
\* records reachable from the root, each counted once.
C5_LengthIsSumOfReachable ==
    pc = "emit_done" => Len(result) = SumCSize(Reachable) /\ eoff = SumCSize(Reachable)

\* C6: an encoded version fits in 32 bits, encoded versions compare as the
\* versions compare component by component with major first, and distinct
\* versions have distinct encodings.
C6_EncodeOrder ==
    enc1 # Unset =>
        /\ FitsU32(enc1) /\ FitsU32(enc2)
        /\ LtU32(enc1, enc2) <=> LexLess(ver1, ver2)
        /\ ver1 # ver2 => enc1 # enc2
        /\ LtU32(Encode(<<2, 1, 9, 9>>), Encode(<<2, 2, 1, 0>>))
        /\ LtU32(Encode(<<2, 0, 0, 0>>), Encode(<<2, 0, 0, 1>>))

C6_Witness ==
    /\ enc1 # Unset
    /\ ver1[1] = MaxComponent
    /\ ver2[1] = MaxComponent
    /\ ver1[2] < ver2[2]
    /\ ver1[3] > ver2[3]

\* C7: a root is accepted (the traversal starts on it) only if the first
\* field of its struct definition is a U32 named "version".
C7_RootNeedsU32Version ==
    pc \notin {"start", "flat_fail"} =>
        /\ StructDefs[heap[Root].def][1].name = "version"
        /\ StructDefs[heap[Root].def][1].typ = "U32"

\* C8 as claimed: when flatten fails no record has had its offset changed
\* and no list is returned; when emission fails no byte table is returned.
C8_NoOffsetChangedOnFailure ==
    /\ pc = "flat_fail" => (\A r \in Recs : offs[r] = None) /\ ret = <<>>
    /\ pc = "emit_fail" => result = <<>>

\* C8 amended: when flatten fails no list is returned; on the root check no
\* offset has been changed, in mid-traversal the records popped so far (the
\* listed ones and the one whose field failed, so the root at least) and
\* only they have offsets assigned; when emission fails no byte table is
\* returned.
C8_NoResultOnFailure ==
    /\ pc = "flat_fail" => ret = <<>>
    /\ err = "FirstField" => \A r \in Recs : offs[r] = None
    /\ err = "NotStructVal" =>
          /\ offs[Root] # None
          /\ \E r \in Recs : offs[r] = offset
          /\ \A r \in Recs : offs[r] # None => (r \in Range(vals) \/ offs[r] = offset)
    /\ pc = "emit_fail" => result = <<>>

C8_Witness ==
    /\ pc = "flat_fail"
    /\ err = "NotStructVal"
    /\ Len(vals) >= 1

\* C9: when a definition V2 appends fields to the root's definition V1, the
\* emitted bytes read at V2's positions of the leading V1 fields give the
\* values of the root record's fields.
BoundValue(field) == IF field.k = "ref" THEN offs[field.v] ELSE field.v

AppendsTo(d2, d1) ==
    /\ Len(StructDefs[d2]) >= Len(StructDefs[d1])
    /\ \A k \in 1..Len(StructDefs[d1]) : StructDefs[d2][k].typ = StructDefs[d1][k].typ

C9_SupersetLayout ==
    pc = "emit_done" =>
        \A d2 \in DefNames : AppendsTo(d2, heap[Root].def) =>
            \A k \in 1..Len(heap[Root].val) :
                LET pos == FieldPos(d2, k)
                    w == Width(StructDefs[d2][k].typ)
                IN Unpack(SubSeq(result, pos + 1, pos + w))
                       = BoundValue(heap[Root].val[k])

C9_Witness ==
    /\ pc = "emit_done"
    /\ heap[Root].def = "S"
    /\ AppendsTo("S2", heap[Root].def)

====
